---- MODULE Spec2Model ----
(***************************************************************************)
(* A model of package node (src/node.go): the Node value type, the element *)
(* and attribute constructors, Add, and the recursive Render.              *)
(*                                                                         *)
(* Go strings are sequences of one-character strings, so that escaping is  *)
(* computed character by character.  Slices are (ptr, len, cap) headers    *)
(* into a heap of backing arrays, as in Go: a Node value copied into       *)
(* another slice carries its headers with it.  Render is a machine that    *)
(* takes one step per sink write, with an explicit stack of frames, so     *)
(* that several Render calls can interleave.                               *)
(***************************************************************************)
EXTENDS Integers, Sequences, FiniteSets, TLC

VARIABLES
    heap,   \* the backing arrays of all []Node slices: heap[a][i] is a Node
    vars,   \* the client's Node variables
    given,  \* history: for each variable, the constructor that made its value
            \* and the arguments given to it and to the Adds since, in call order
    ops,    \* number of construction statements the client has executed
    rs      \* the Render calls: one record per call slot

vars_all == <<heap, vars, given, ops, rs>>

------------------------------------------------------------------------------
(* Bounds of the model *)

MaxOps == 2         \* construction statements the client executes
MaxLen == 2         \* length of the text and attribute values drawn
MaxOwnOps == 4      \* statements of the client that copies Node values

------------------------------------------------------------------------------
(* Strings *)

RECURSIVE Str(_)
\* the string a sequence of characters spells
Str(s) ==
    IF Len(s) = 0 THEN ""
    ELSE IF Len(s) = 1 THEN s[1]
    ELSE LET m == Len(s) \div 2
         IN Str(SubSeq(s, 1, m)) \o Str(SubSeq(s, m + 1, Len(s)))

RECURSIVE Flatten(_)
\* the concatenation of a sequence of strings (sequences of characters)
Flatten(ss) ==
    IF Len(ss) = 0 THEN <<>>
    ELSE IF Len(ss) = 1 THEN ss[1]
    ELSE LET m == Len(ss) \div 2
         IN Flatten(SubSeq(ss, 1, m)) \o Flatten(SubSeq(ss, m + 1, Len(ss)))

\* html.EscapeString's replacement of one character
EscapeChar(c) ==
    CASE c = "&"  -> <<"&", "a", "m", "p", ";">>
      [] c = "'"  -> <<"&", "#", "3", "9", ";">>
      [] c = "<"  -> <<"&", "l", "t", ";">>
      [] c = ">"  -> <<"&", "g", "t", ";">>
      [] c = "\"" -> <<"&", "#", "3", "4", ";">>
      [] OTHER    -> <<c>>

RECURSIVE EscapeString(_)
\* html.EscapeString: every character replaced in one left-to-right pass
EscapeString(s) ==
    IF s = <<>> THEN <<>> ELSE EscapeChar(Head(s)) \o EscapeString(Tail(s))

\* Precomputed byte slices
lt         == <<"<">>
gt         == <<">">>
ltSlash    == <<"<", "/">>
gtSlash    == <<"/", ">">>
space      == <<" ">>
equalQuote == <<"=", "\"">>
quote      == <<"\"">>

------------------------------------------------------------------------------
(* Node values and slices *)

NodeTypeTag  == 0
NodeTypeAttr == 1
NodeTypeText == 2

\* a nil slice
NilSlice == [ptr |-> 0, len |-> 0, cap |-> 0]

\* the zero value of Node
ZeroNode ==
    [Type |-> NodeTypeTag, Tag |-> <<>>, Key |-> <<>>, Value |-> <<>>,
     Children |-> NilSlice, Attributes |-> NilSlice, SelfClose |-> FALSE]

\* the elements a slice header views, in order
View(h, s) == [i \in 1 .. s.len |-> h[s.ptr][i]]

\* the capacity append gives a slice it has to grow (old < 256)
GrowCap(old, need) == IF need > 2 * old THEN need ELSE 2 * old

\* append(s, elems...): the new heap and the resulting slice header
GoAppend(h, s, elems) ==
    LET need == s.len + Len(elems) IN
    IF Len(elems) = 0 THEN [heap |-> h, slice |-> s]
    ELSE IF need <= s.cap
    THEN [heap  |-> [h EXCEPT ![s.ptr] =
                        [i \in 1 .. s.cap |->
                            IF i > s.len /\ i <= need
                            THEN elems[i - s.len] ELSE @[i]]],
          slice |-> [s EXCEPT !.len = need]]
    ELSE LET newcap == GrowCap(s.cap, need)
             arr == [i \in 1 .. newcap |->
                        IF i <= s.len THEN h[s.ptr][i]
                        ELSE IF i <= need THEN elems[i - s.len]
                        ELSE ZeroNode]
         IN [heap  |-> Append(h, arr),
             slice |-> [ptr |-> Len(h) + 1, len |-> need, cap |-> newcap]]

\* []Node{elems...}: a slice literal
SliceLit(h, elems) ==
    IF Len(elems) = 0 THEN [heap |-> h, slice |-> NilSlice]
    ELSE [heap  |-> Append(h, elems),
          slice |-> [ptr |-> Len(h) + 1, len |-> Len(elems), cap |-> Len(elems)]]

RECURSIVE SeparateFrom(_, _, _, _)
\* the loop of separateChildrenAndAttrs, from the nodes still to visit
SeparateFrom(h, nodes, children, attrs) ==
    IF nodes = <<>>
    THEN [heap |-> h, children |-> children, attrs |-> attrs]
    ELSE LET node == Head(nodes) IN
         IF node.Type = NodeTypeAttr
         THEN LET r == GoAppend(h, attrs, <<node>>)
              IN SeparateFrom(r.heap, Tail(nodes), children, r.slice)
         ELSE LET r == GoAppend(h, children, <<node>>)
              IN SeparateFrom(r.heap, Tail(nodes), r.slice, attrs)

RECURSIVE SeparateSwappedFrom(_, _, _, _)
\* the loop with the test on the type turned around: a node is a child
\* only if it is text
SeparateSwappedFrom(h, nodes, children, attrs) ==
    IF nodes = <<>>
    THEN [heap |-> h, children |-> children, attrs |-> attrs]
    ELSE LET node == Head(nodes) IN
         IF node.Type = NodeTypeText
         THEN LET r == GoAppend(h, children, <<node>>)
              IN SeparateSwappedFrom(r.heap, Tail(nodes), r.slice, attrs)
         ELSE LET r == GoAppend(h, attrs, <<node>>)
              IN SeparateSwappedFrom(r.heap, Tail(nodes), children, r.slice)

separateAllButTextAsAttrs(h, nodes) ==
    SeparateSwappedFrom(h, nodes, NilSlice, NilSlice)

\* separateChildrenAndAttrs(nodes): children and attrs start nil
separateChildrenAndAttrs(h, nodes) == SeparateFrom(h, nodes, NilSlice, NilSlice)

\* the body the element constructors share
Element(h, tag, selfClose, nodes) ==
    LET s == separateChildrenAndAttrs(h, nodes) IN
    [heap |-> s.heap,
     node |-> [Type |-> NodeTypeTag, Tag |-> tag, Key |-> <<>>, Value |-> <<>>,
               Children |-> s.children, Attributes |-> s.attrs,
               SelfClose |-> selfClose]]

Div(h, nodes)    == Element(h, <<"d", "i", "v">>, FALSE, nodes)
Span(h, nodes)   == Element(h, <<"s", "p", "a", "n">>, FALSE, nodes)
P(h, nodes)      == Element(h, <<"p">>, FALSE, nodes)
H1(h, nodes)     == Element(h, <<"h", "1">>, FALSE, nodes)
A(h, nodes)      == Element(h, <<"a">>, FALSE, nodes)
Button(h, nodes) == Element(h, <<"b", "u", "t", "t", "o", "n">>, FALSE, nodes)
\* Input without SelfClose: true
InputNotSelfClosing(h, nodes) ==
    Element(h, <<"i", "n", "p", "u", "t">>, FALSE, nodes)
Input(h, nodes)  == Element(h, <<"i", "n", "p", "u", "t">>, TRUE, nodes)
Img(h, nodes)    == Element(h, <<"i", "m", "g">>, TRUE, nodes)

Attr(key, value) ==
    [Type |-> NodeTypeAttr, Tag |-> <<>>, Key |-> key, Value |-> value,
     Children |-> NilSlice, Attributes |-> NilSlice, SelfClose |-> FALSE]

Class(value)       == Attr(<<"c", "l", "a", "s", "s">>, value)
ID(value)          == Attr(<<"i", "d">>, value)
Href(value)        == Attr(<<"h", "r", "e", "f">>, value)
Src(value)         == Attr(<<"s", "r", "c">>, value)
Alt(value)         == Attr(<<"a", "l", "t">>, value)
Type(value)        == Attr(<<"t", "y", "p", "e">>, value)
Value(value)       == Attr(<<"v", "a", "l", "u", "e">>, value)
Placeholder(value) ==
    Attr(<<"p", "l", "a", "c", "e", "h", "o", "l", "d", "e", "r">>, value)
Disabled           == Attr(<<"d", "i", "s", "a", "b", "l", "e", "d">>, <<>>)
Required           == Attr(<<"r", "e", "q", "u", "i", "r", "e", "d">>, <<>>)

Text(content) ==
    [Type |-> NodeTypeText, Tag |-> <<>>, Key |-> <<>>, Value |-> content,
     Children |-> NilSlice, Attributes |-> NilSlice, SelfClose |-> FALSE]

\* Add with the two appends given each other's nodes
NodeAddSwapped(h, n, nodes) ==
    LET s  == separateChildrenAndAttrs(h, nodes)
        c  == IF s.children.len > 0
              THEN GoAppend(s.heap, n.Attributes, View(s.heap, s.children))
              ELSE [heap |-> s.heap, slice |-> n.Attributes]
        a  == IF s.attrs.len > 0
              THEN GoAppend(c.heap, n.Children, View(c.heap, s.attrs))
              ELSE [heap |-> c.heap, slice |-> n.Children]
    IN [heap |-> a.heap,
        node |-> [n EXCEPT !.Attributes = c.slice, !.Children = a.slice]]

\* n.Add(nodes...): the new heap and the new value of *n
NodeAdd(h, n, nodes) ==
    LET s  == separateChildrenAndAttrs(h, nodes)
        c  == IF s.children.len > 0
              THEN GoAppend(s.heap, n.Children, View(s.heap, s.children))
              ELSE [heap |-> s.heap, slice |-> n.Children]
        a  == IF s.attrs.len > 0
              THEN GoAppend(c.heap, n.Attributes, View(c.heap, s.attrs))
              ELSE [heap |-> c.heap, slice |-> n.Attributes]
    IN [heap |-> a.heap,
        node |-> [n EXCEPT !.Children = c.slice, !.Attributes = a.slice]]

------------------------------------------------------------------------------
(* The sink and the errors *)

NoErr == [kind |-> "nil", at |-> 0]

\* the error of fmt.Errorf("unknown node type: %d", n.Type)
UnknownType(t) == [kind |-> "unknown node type", at |-> t]

\* the error the sink returns from its k-th Write
SinkErr(k) == [kind |-> "write", at |-> k]

\* a sink nothing has been written to: the chunks handed to Write, one per
\* call, and the error each call returned
NewSink == [calls |-> <<>>, errs |-> <<>>]

\* w.Write(chunk) or io.WriteString(w, chunk): one call of the sink, which
\* fails or not as the sink decides
SinkWrite(sink, chunk, fail) ==
    LET k == Len(sink.calls) + 1
        e == IF fail THEN SinkErr(k) ELSE NoErr
    IN [sink |-> [calls |-> Append(sink.calls, chunk),
                  errs  |-> Append(sink.errs, e)],
        err  |-> e]

------------------------------------------------------------------------------
(* Render: one record per call, a stack of frames, one step per statement  *)

\* a *Node: a client variable (arr = 0) or an element of a backing array
VarPtr(v)       == [var |-> v, arr |-> 0, idx |-> 0]
ElemPtr(s, i)   == [var |-> "", arr |-> s.ptr, idx |-> i + 1]
Deref(h, vr, p) == IF p.arr = 0 THEN vr[p.var] ELSE h[p.arr][p.idx]

Frame(p, pc) == [n |-> p, pc |-> pc, i |-> 0, len |-> 0]

Top(st)          == st.stack[Len(st.stack)]
SetTop(st, f)    == [st EXCEPT !.stack[Len(st.stack)] = f]
Running(st, pcs) == st.status = "running" /\ Top(st).pc \in pcs

\* where a renderTag frame goes when a loop over length len stands at i
AttrLoop(f, i, len) ==
    [f EXCEPT !.i = i, !.len = len, !.pc = IF i < len THEN "space" ELSE "close"]
\* the loop over the children stopping one short
ChildLoopSkipsLast(f, i, len) ==
    [f EXCEPT !.i = i, !.len = len,
              !.pc = IF i + 1 < len THEN "child" ELSE "ltslash"]
ChildLoop(f, i, len) ==
    [f EXCEPT !.i = i, !.len = len, !.pc = IF i < len THEN "child" ELSE "ltslash"]

RECURSIVE Return(_, _)
\* the top frame returns err to its caller: a renderTag in one of its loops,
\* which returns a non-nil err at once and otherwise goes on with the loop
Return(st, err) ==
    LET rest == SubSeq(st.stack, 1, Len(st.stack) - 1) IN
    IF rest = <<>>
    THEN [st EXCEPT !.stack = <<>>, !.status = "done", !.err = err]
    ELSE LET c == rest[Len(rest)] IN
         IF err # NoErr
         THEN Return([st EXCEPT !.stack = rest], err)
         ELSE [st EXCEPT !.stack =
                  [rest EXCEPT ![Len(rest)] =
                      IF c.pc = "attr" THEN AttrLoop(c, c.i + 1, c.len)
                      ELSE ChildLoop(c, c.i + 1, c.len)]]

\* a Write whose error is dropped
WriteThenIgnoringError(st, chunk, fail, next) ==
    SetTop([st EXCEPT !.sink = SinkWrite(st.sink, chunk, fail).sink], next)

\* a Write whose error, if any, is returned at once: the state goes to
\* next (a frame to replace the top) when the write succeeded
WriteThen(st, chunk, fail, next) ==
    LET w  == SinkWrite(st.sink, chunk, fail)
        s1 == [st EXCEPT !.sink = w.sink]
    IN IF w.err # NoErr THEN Return(s1, w.err) ELSE SetTop(s1, next)

\* a Write that ends the function: its error is the result
WriteReturn(st, chunk, fail) ==
    LET w == SinkWrite(st.sink, chunk, fail)
    IN Return([st EXCEPT !.sink = w.sink], w.err)

\* Render with a default case that returns nil
RenderUnknownAsNil(h, vr, st, p) ==
    LET t  == Deref(h, vr, p).Type
        s1 == [st EXCEPT !.stack = Append(st.stack, Frame(p, "call"))]
    IN CASE t = NodeTypeTag  -> SetTop(s1, Frame(p, "lt"))
         [] t = NodeTypeAttr -> SetTop(s1, Frame(p, "key"))
         [] t = NodeTypeText -> SetTop(s1, Frame(p, "text"))
         [] OTHER            -> Return(s1, NoErr)

\* Render that returns ctx.Err() when its context is cancelled
RenderHonouringCtx(h, vr, st, p) ==
    LET t  == Deref(h, vr, p).Type
        s1 == [st EXCEPT !.stack = Append(st.stack, Frame(p, "call"))]
    IN CASE st.ctx = "cancelled" ->
                Return(s1, [kind |-> "context canceled", at |-> 0])
         [] t = NodeTypeTag  -> SetTop(s1, Frame(p, "lt"))
         [] t = NodeTypeAttr -> SetTop(s1, Frame(p, "key"))
         [] t = NodeTypeText -> SetTop(s1, Frame(p, "text"))
         [] OTHER            -> Return(s1, UnknownType(t))

\* p.Render(ctx, w): the switch on the node's type
Render(h, vr, st, p) ==
    LET t  == Deref(h, vr, p).Type
        s1 == [st EXCEPT !.stack = Append(st.stack, Frame(p, "call"))]
    IN CASE t = NodeTypeTag  -> SetTop(s1, Frame(p, "lt"))
         [] t = NodeTypeAttr -> SetTop(s1, Frame(p, "key"))
         [] t = NodeTypeText -> SetTop(s1, Frame(p, "text"))
         [] OTHER            -> Return(s1, UnknownType(t))

\* one statement of renderTag
renderTag(h, vr, st, fail) ==
    LET f == Top(st)
        n == Deref(h, vr, f.n)
    IN CASE f.pc = "lt"      -> WriteThen(st, lt, fail, [f EXCEPT !.pc = "tag"])
         [] f.pc = "tag"     ->
                WriteThen(st, n.Tag, fail, AttrLoop(f, 0, n.Attributes.len))
         [] f.pc = "space"   -> WriteThen(st, space, fail, [f EXCEPT !.pc = "attr"])
         [] f.pc = "attr"    -> Render(h, vr, st, ElemPtr(n.Attributes, f.i))
         [] f.pc = "close"   ->
                IF n.SelfClose
                THEN WriteReturn(st, gtSlash, fail)
                ELSE WriteThen(st, gt, fail, ChildLoop(f, 0, n.Children.len))
         [] f.pc = "child"   -> Render(h, vr, st, ElemPtr(n.Children, f.i))
         [] f.pc = "ltslash" -> WriteThen(st, ltSlash, fail, [f EXCEPT !.pc = "ctag"])
         [] f.pc = "ctag"    -> WriteThen(st, n.Tag, fail, [f EXCEPT !.pc = "gt"])
         [] f.pc = "gt"      -> WriteReturn(st, gt, fail)

\* renderAttr without the test for an empty value
renderAttrAlwaysQuoted(h, vr, st, fail) ==
    LET f == Top(st)
        n == Deref(h, vr, f.n)
    IN CASE f.pc = "key"   -> WriteThen(st, n.Key, fail, [f EXCEPT !.pc = "eq"])
         [] f.pc = "eq"    -> WriteThen(st, equalQuote, fail, [f EXCEPT !.pc = "val"])
         [] f.pc = "val"   ->
                WriteThen(st, EscapeString(n.Value), fail, [f EXCEPT !.pc = "quote"])
         [] f.pc = "quote" -> WriteReturn(st, quote, fail)

\* one statement of renderAttr
renderAttr(h, vr, st, fail) ==
    LET f == Top(st)
        n == Deref(h, vr, f.n)
    IN CASE f.pc = "key"   ->
                IF n.Value # <<>>
                THEN WriteThen(st, n.Key, fail, [f EXCEPT !.pc = "eq"])
                ELSE WriteReturn(st, n.Key, fail)
         [] f.pc = "eq"    -> WriteThen(st, equalQuote, fail, [f EXCEPT !.pc = "val"])
         [] f.pc = "val"   ->
                WriteThen(st, EscapeString(n.Value), fail, [f EXCEPT !.pc = "quote"])
         [] f.pc = "quote" ->
                WriteReturn(st, quote, fail)

\* renderText escaping what is already escaped
renderTextEscapedTwice(h, vr, st, fail) ==
    WriteReturn(st, EscapeString(EscapeString(Deref(h, vr, Top(st).n).Value)), fail)

\* renderText: the escaped value in one write, whose error is the result
renderText(h, vr, st, fail) ==
    WriteReturn(st, EscapeString(Deref(h, vr, Top(st).n).Value), fail)

TagPcs  == {"lt", "tag", "space", "attr", "close", "child", "ltslash", "ctag", "gt"}
CallPcs == {"attr", "child"}
AttrPcs == {"key", "eq", "val", "quote"}

------------------------------------------------------------------------------
(* The client: construction statements, then Render calls *)

\* the contexts a caller passes: context.Background(), one already
\* cancelled, and nil
CtxValues == {"background", "cancelled", "nil"}

IdleCall == [status |-> "idle", root |-> "", ctx |-> "nil", stack |-> <<>>,
             err |-> NoErr, sink |-> NewSink]

NoHistory == [ctor |-> "", args |-> <<>>]

AllIdle == \A r \in DOMAIN rs : rs[r].status = "idle"

\* a Node whose Type is none of the three: Node{Type: 3}
BadNode == [ZeroNode EXCEPT !.Type = 3]

\* the argument lists the client passes to a constructor or to Add of v
ArgLists(v) ==
    LET o == IF v = "x" THEN vars["y"] ELSE vars["x"] IN
    { <<>>,
      <<Class(<<"&">>), Text(<<"<">>), Disabled, Text(<<"a">>)>>,
      <<Text(<<>>), BadNode, Text(<<"a">>), ID(<<"i">>)>>,
      <<Required, o>> }

\* the element constructors the client calls, by tag
Construct(h, c, nodes) ==
    CASE c = "div"   -> Div(h, nodes)
      [] c = "input" -> Input(h, nodes)
      [] c = "img"   -> Img(h, nodes)

\* v := Div(args...), v := Input(args...), v := Img(args...)
New(v, c, args) ==
    /\ AllIdle /\ ops < MaxOps
    /\ LET r == Construct(heap, c, args) IN
        /\ heap' = r.heap
        /\ vars' = [vars EXCEPT ![v] = r.node]
    /\ given' = [given EXCEPT ![v] = [ctor |-> c, args |-> args]]
    /\ ops' = ops + 1
    /\ UNCHANGED rs

\* v.Add(args...)
Add(v, args) ==
    /\ AllIdle /\ ops < MaxOps
    /\ LET r == NodeAdd(heap, vars[v], args) IN
        /\ heap' = r.heap
        /\ vars' = [vars EXCEPT ![v] = r.node]
    /\ given' = [given EXCEPT ![v].args = @ \o args]
    /\ ops' = ops + 1
    /\ UNCHANGED rs

\* v = Node{Type: t, Tag: "div", Attributes: []Node{...},
\* Children: []Node{...}}: a struct literal, its sequences as written
Literal(v, t, attrs, children) ==
    /\ AllIdle /\ ops < MaxOps
    /\ LET a == SliceLit(heap, attrs)
           c == SliceLit(a.heap, children)
       IN /\ heap' = c.heap
          /\ vars' = [vars EXCEPT ![v] =
                        [ZeroNode EXCEPT !.Type = t,
                                         !.Tag = <<"d", "i", "v">>,
                                         !.Attributes = a.slice,
                                         !.Children = c.slice]]
    /\ given' = [given EXCEPT ![v] = NoHistory]
    /\ ops' = ops + 1
    /\ UNCHANGED rs

\* the call vars[v].Render(ctx, w), w a sink of its own
StartRender(r, v, ctx) ==
    /\ rs[r].status = "idle"
    /\ rs' = [rs EXCEPT ![r] =
                Render(heap, vars,
                       [IdleCall EXCEPT !.status = "running", !.root = v,
                                        !.ctx = ctx],
                       VarPtr(v))]
    /\ UNCHANGED <<heap, vars, given, ops>>

\* the call r executes one statement of renderTag
RenderTag(r, fail) ==
    /\ Running(rs[r], TagPcs)
    /\ Top(rs[r]).pc \in CallPcs => ~fail
    /\ rs' = [rs EXCEPT ![r] = renderTag(heap, vars, rs[r], fail)]
    /\ UNCHANGED <<heap, vars, given, ops>>

\* the call r executes one statement of renderAttr
RenderAttr(r, fail) ==
    /\ Running(rs[r], AttrPcs)
    /\ rs' = [rs EXCEPT ![r] = renderAttr(heap, vars, rs[r], fail)]
    /\ UNCHANGED <<heap, vars, given, ops>>

\* a renderText that empties the node it has written
RenderTextConsuming(r, fail) ==
    /\ Running(rs[r], {"text"})
    /\ rs' = [rs EXCEPT ![r] = renderText(heap, vars, rs[r], fail)]
    /\ LET p == Top(rs[r]).n IN
        IF p.arr = 0
        THEN /\ vars' = [vars EXCEPT ![p.var].Value = <<>>]
             /\ heap' = heap
        ELSE /\ heap' = [heap EXCEPT ![p.arr][p.idx].Value = <<>>]
             /\ vars' = vars
    /\ UNCHANGED <<given, ops>>

\* the call r executes renderText
RenderText(r, fail) ==
    /\ Running(rs[r], {"text"})
    /\ rs' = [rs EXCEPT ![r] = renderText(heap, vars, rs[r], fail)]
    /\ UNCHANGED <<heap, vars, given, ops>>

RenderStep ==
    \E r \in DOMAIN rs, fail \in BOOLEAN :
        \/ RenderTag(r, fail)
        \/ RenderAttr(r, fail)
        \/ RenderText(r, fail)

Init ==
    /\ heap = <<>>
    /\ vars = [v \in {"x", "y"} |-> ZeroNode]
    /\ given = [v \in {"x", "y"} |-> NoHistory]
    /\ ops = 0
    /\ rs = [r \in {"r1"} |-> IdleCall]

Next ==
    \/ \E v \in DOMAIN vars, c \in {"div", "input", "img"} :
            \E args \in ArgLists(v) : New(v, c, args)
    \/ \E v \in DOMAIN vars : \E args \in ArgLists(v) : Add(v, args)
    \/ \E v \in DOMAIN vars, t \in {NodeTypeTag, BadNode.Type} :
            Literal(v, t, <<ID(<<>>), BadNode>>, <<Class(<<"c">>), Text(<<"a">>)>>)
    \/ \E r \in DOMAIN rs, v \in DOMAIN vars : StartRender(r, v, "background")
    \/ RenderStep

Spec == Init /\ [][Next]_vars_all

------------------------------------------------------------------------------
(* A client that builds one attribute or text node and renders it *)

Alphabet == {"a", ";", "<", ">", "&", "\"", "'"}

\* the strings of at most n characters
Strings(n) == UNION {[1 .. k -> Alphabet] : k \in 0 .. n}

\* attribute names: plain, and one with characters that escaping would change
Keys == {<<"k">>, <<"a", "<", "&">>}

\* the attribute and text constructors, by name
Leaf(c, key, value) ==
    CASE c = "Attr"        -> Attr(key, value)
      [] c = "Class"       -> Class(value)
      [] c = "ID"          -> ID(value)
      [] c = "Href"        -> Href(value)
      [] c = "Src"         -> Src(value)
      [] c = "Alt"         -> Alt(value)
      [] c = "Type"        -> Type(value)
      [] c = "Value"       -> Value(value)
      [] c = "Placeholder" -> Placeholder(value)
      [] c = "Disabled"    -> Disabled
      [] c = "Required"    -> Required
      [] c = "Text"        -> Text(value)

ValueHelpers ==
    {"Class", "ID", "Href", "Src", "Alt", "Type", "Value", "Placeholder", "Text"}

\* v := Attr(key, value), v := Class(value), ..., v := Text(value)
NewLeaf(v, c, key, value) ==
    /\ AllIdle /\ ops = 0
    /\ vars' = [vars EXCEPT ![v] = Leaf(c, key, value)]
    /\ given' = [given EXCEPT ![v] = [ctor |-> c, args |-> <<key, value>>]]
    /\ ops' = ops + 1
    /\ UNCHANGED <<heap, rs>>

InitLeaf ==
    /\ heap = <<>>
    /\ vars = [v \in {"x"} |-> ZeroNode]
    /\ given = [v \in {"x"} |-> NoHistory]
    /\ ops = 0
    /\ rs = [r \in {"r1"} |-> IdleCall]

NextLeaf ==
    \/ \E k \in Keys, value \in Strings(MaxLen) : NewLeaf("x", "Attr", k, value)
    \/ \E c \in ValueHelpers, value \in Strings(MaxLen) : NewLeaf("x", c, <<>>, value)
    \/ \E c \in {"Disabled", "Required"} : NewLeaf("x", c, <<>>, <<>>)
    \/ \E r \in DOMAIN rs, ctx \in CtxValues : StartRender(r, "x", ctx)
    \/ RenderStep

SpecLeaf == InitLeaf /\ [][NextLeaf]_vars_all

------------------------------------------------------------------------------
(* The Quick Start program of the README *)

Chars_Welcome    == <<"W", "e", "l", "c", "o", "m", "e", "!">>
Chars_ThisIsA    == <<"T", "h", "i", "s", " ", "i", "s", " ", "a", " ">>
Chars_Link       == <<"l", "i", "n", "k">>
Chars_SlashLink  == <<"/", "l", "i", "n", "k">>
Chars_Example    == <<" ", "e", "x", "a", "m", "p", "l", "e", ".">>
Chars_Button     == <<"b", "u", "t", "t", "o", "n">>
Chars_Btn        == <<"b", "t", "n">>
Chars_ClickMe    == <<"C", "l", "i", "c", "k", " ", "m", "e">>
Chars_Container  == <<"c", "o", "n", "t", "a", "i", "n", "e", "r">>

QuickVars == {"h1", "p", "button", "div"}

\* the statement the program executes after ops statements
QuickStmt ==
    /\ AllIdle /\ ops < 5
    /\ LET st ==
            CASE ops = 0 ->
                    [v |-> "h1", c |-> "h1", args |-> <<Text(Chars_Welcome)>>,
                     r |-> H1(heap, <<Text(Chars_Welcome)>>)]
              [] ops = 1 ->
                    LET a == A(heap, <<Href(Chars_SlashLink), Text(Chars_Link)>>)
                        args == <<Text(Chars_ThisIsA), a.node, Text(Chars_Example)>>
                    IN [v |-> "p", c |-> "p", args |-> args, r |-> P(a.heap, args)]
              [] ops = 2 ->
                    LET args == <<Type(Chars_Button), Class(Chars_Btn),
                                  Text(Chars_ClickMe)>>
                    IN [v |-> "button", c |-> "button", args |-> args,
                        r |-> Button(heap, args)]
              [] ops = 3 ->
                    [v |-> "div", c |-> "div", args |-> <<Class(Chars_Container)>>,
                     r |-> Div(heap, <<Class(Chars_Container)>>)]
              [] ops = 4 ->
                    LET args == <<vars["h1"], vars["p"], vars["button"]>>
                    IN [v |-> "div", c |-> given["div"].ctor,
                        args |-> given["div"].args \o args,
                        r |-> NodeAdd(heap, vars["div"], args)]
       IN /\ heap' = st.r.heap
          /\ vars' = [vars EXCEPT ![st.v] = st.r.node]
          /\ given' = [given EXCEPT ![st.v] = [ctor |-> st.c, args |-> st.args]]
    /\ ops' = ops + 1
    /\ UNCHANGED rs

\* div.Render(context.Background(), &buf); other callers pass other contexts
QuickRender(r, ctx) == ops = 5 /\ StartRender(r, "div", ctx)

InitQuick ==
    /\ heap = <<>>
    /\ vars = [v \in QuickVars |-> ZeroNode]
    /\ given = [v \in QuickVars |-> NoHistory]
    /\ ops = 0
    /\ rs = [r \in {"r1"} |-> IdleCall]

NextQuick ==
    \/ QuickStmt
    \/ \E r \in DOMAIN rs, ctx \in CtxValues : QuickRender(r, ctx)
    \/ RenderStep

SpecQuick == InitQuick /\ [][NextQuick]_vars_all

------------------------------------------------------------------------------
(* The example program (package main): its package-level elements, one    *)
(* iteration of its loop, and Render calls on the resulting div.  The     *)
(* program renders once per iteration; here up to two calls, each with a  *)
(* sink and a context of its own, run concurrently on the same div.       *)

Chars_IdText       == <<"i", "d", "-", "t", "e", "x", "t">>
Chars_TextWord     == <<"t", "e", "x", "t">>
Chars_EnterText    == <<"E", "n", "t", "e", "r", " ", "t", "e", "x", "t", ".", ".", ".">>
Chars_Hello        == <<"h", "e", "l", "l", "o">>
Chars_IdHidden     == <<"i", "d", "-", "h", "i", "d", "d", "e", "n">>
Chars_Hidden       == <<"h", "i", "d", "d", "e", "n">>
Chars_HiddenValue  == <<"h", "i", "d", "d", "e", "n", " ", "v", "a", "l", "u", "e">>
Chars_ImageJpg     == <<"/", "i", "m", "a", "g", "e", ".", "j", "p", "g">>
Chars_ExampleImage == <<"E", "x", "a", "m", "p", "l", "e", " ", "i", "m", "a", "g", "e">>

MainElems == <<"h1", "p", "button", "inputText", "inputHidden", "img">>
MainVars  == {MainElems[i] : i \in 1 .. Len(MainElems)} \cup {"div"}

\* the heap and the variables once the package-level variables are initialised
MainPackage ==
    LET e1 == H1(<<>>, <<Text(Chars_Welcome)>>)
        a  == A(e1.heap, <<Href(Chars_SlashLink), Text(Chars_Link)>>)
        e2 == P(a.heap, <<Text(Chars_ThisIsA), a.node, Text(Chars_Example)>>)
        e3 == Button(e2.heap, <<Type(Chars_Button), Class(Chars_Btn),
                                Text(Chars_ClickMe)>>)
        e4 == Input(e3.heap, <<ID(Chars_IdText), Type(Chars_TextWord),
                               Placeholder(Chars_EnterText), Required,
                               Value(Chars_Hello)>>)
        e5 == Input(e4.heap, <<ID(Chars_IdHidden), Type(Chars_Hidden),
                               Value(Chars_HiddenValue), Disabled>>)
        e6 == Img(e5.heap, <<Src(Chars_ImageJpg), Alt(Chars_ExampleImage)>>)
    IN [heap |-> e6.heap,
        vars |-> [v \in MainVars |->
                    CASE v = "h1"          -> e1.node
                      [] v = "p"           -> e2.node
                      [] v = "button"      -> e3.node
                      [] v = "inputText"   -> e4.node
                      [] v = "inputHidden" -> e5.node
                      [] v = "img"         -> e6.node
                      [] OTHER             -> ZeroNode]]

\* div := Div(Class("container"))
MainDiv ==
    /\ AllIdle /\ ops = 0
    /\ LET r == Div(heap, <<Class(Chars_Container)>>) IN
        /\ heap' = r.heap
        /\ vars' = [vars EXCEPT !["div"] = r.node]
    /\ given' = [given EXCEPT !["div"] =
                    [ctor |-> "div", args |-> <<Class(Chars_Container)>>]]
    /\ ops' = 1
    /\ UNCHANGED rs

\* div.Add(el)
MainAdd(el) ==
    /\ AllIdle /\ ops = 1
    /\ LET r == NodeAdd(heap, vars["div"], <<vars[el]>>) IN
        /\ heap' = r.heap
        /\ vars' = [vars EXCEPT !["div"] = r.node]
    /\ given' = [given EXCEPT !["div"].args = @ \o <<vars[el]>>]
    /\ ops' = 2
    /\ UNCHANGED rs

\* div.Render(nil, os.Stdout); other callers pass other contexts
MainRender(r, ctx) == ops = 2 /\ StartRender(r, "div", ctx)

InitMain ==
    /\ heap = MainPackage.heap
    /\ vars = MainPackage.vars
    /\ given = [v \in MainVars |-> NoHistory]
    /\ ops = 0
    /\ rs = [r \in {"r1", "r2"} |-> IdleCall]

NextMain ==
    \/ MainDiv
    \/ \E i \in 1 .. Len(MainElems) : MainAdd(MainElems[i])
    \/ \E r \in DOMAIN rs, ctx \in CtxValues : MainRender(r, ctx)
    \/ RenderStep

SpecMain == InitMain /\ [][NextMain]_vars_all

------------------------------------------------------------------------------
(* A client that builds elements, copies Node values and adds to them *)

\* the argument lists this client passes to Div and to Add of v: one child
\* or another, one attribute, three children, three attributes, and the
\* Node held by the other variable, passed by value
OwnArgLists(v) ==
    LET o == IF v = "x" THEN vars["y"] ELSE vars["x"] IN
    { <<Text(<<"a">>)>>,
      <<Text(<<"e">>)>>,
      <<ID(<<"i">>)>>,
      <<Text(<<"b">>), Text(<<"c">>), Text(<<"d">>)>>,
      <<Class(<<"k">>), Disabled, Required>>,
      <<o>> }

\* v := Div(args...)
OwnNew(v, args) ==
    /\ ops < MaxOwnOps
    /\ LET r == Div(heap, args) IN
        /\ heap' = r.heap
        /\ vars' = [vars EXCEPT ![v] = r.node]
    /\ given' = [given EXCEPT ![v] = [ctor |-> "div", args |-> args]]
    /\ ops' = ops + 1
    /\ UNCHANGED rs

\* v = u: the assignment of a Node value, which copies the seven fields,
\* the two slice headers among them, and no backing array
Assign(v, u) ==
    /\ ops < MaxOwnOps
    /\ v # u
    /\ vars' = [vars EXCEPT ![v] = vars[u]]
    /\ given' = [given EXCEPT ![v] = given[u]]
    /\ ops' = ops + 1
    /\ UNCHANGED <<heap, rs>>

\* v.Add(args...)
OwnAdd(v, args) ==
    /\ ops < MaxOwnOps
    /\ LET r == NodeAdd(heap, vars[v], args) IN
        /\ heap' = r.heap
        /\ vars' = [vars EXCEPT ![v] = r.node]
    /\ given' = [given EXCEPT ![v].args = @ \o args]
    /\ ops' = ops + 1
    /\ UNCHANGED rs

NextOwn ==
    \/ \E v \in DOMAIN vars : \E args \in OwnArgLists(v) : OwnNew(v, args)
    \/ \E v \in DOMAIN vars, u \in DOMAIN vars : Assign(v, u)
    \/ \E v \in DOMAIN vars : \E args \in OwnArgLists(v) : OwnAdd(v, args)

SpecOwn == Init /\ [][NextOwn]_vars_all

------------------------------------------------------------------------------
(* What the claims speak of *)

IsAttr(n)    == n.Type = NodeTypeAttr
IsNotAttr(n) == n.Type # NodeTypeAttr

ElementCtors == {"div", "span", "p", "h1", "a", "button", "input", "img"}

Done(r)          == rs[r].status = "done"
Root(r)          == vars[rs[r].root]
History(r)       == given[rs[r].root]
NoWriteFailed(r) ==
    \A k \in 1 .. Len(rs[r].sink.errs) : rs[r].sink.errs[k] = NoErr
FirstFailure(r)  ==
    CHOOSE k \in 1 .. Len(rs[r].sink.errs) :
        /\ rs[r].sink.errs[k] # NoErr
        /\ \A j \in 1 .. k - 1 : rs[r].sink.errs[j] = NoErr
\* the bytes the sink holds after a call none of whose writes failed
Written(r)       == Flatten(rs[r].sink.calls)

RECURSIVE AllKnown(_, _)
\* every node the traversal of n reaches has one of the three types
AllKnown(h, n) ==
    /\ n.Type \in {NodeTypeTag, NodeTypeAttr, NodeTypeText}
    /\ n.Type = NodeTypeTag =>
        /\ \A i \in 1 .. n.Attributes.len : AllKnown(h, h[n.Attributes.ptr][i])
        /\ ~n.SelfClose =>
              \A i \in 1 .. n.Children.len : AllKnown(h, h[n.Children.ptr][i])

RECURSIVE Doc(_, _), DocEach(_, _, _)
\* the document of a node as the rendering rules state it: an element is its
\* open tag, its attributes each after a space, then "/>" or ">", its
\* children and its close tag; a node of no known type contributes nothing
Doc(h, n) ==
    CASE n.Type = NodeTypeTag ->
            <<"<">> \o n.Tag \o DocEach(h, View(h, n.Attributes), <<" ">>) \o
            (IF n.SelfClose THEN <<"/", ">">>
             ELSE <<">">> \o DocEach(h, View(h, n.Children), <<>>) \o
                  <<"<", "/">> \o n.Tag \o <<">">>)
      [] n.Type = NodeTypeAttr ->
            n.Key \o (IF n.Value = <<>> THEN <<>>
                      ELSE <<"=", "\"">> \o EscapeString(n.Value) \o <<"\"">>)
      [] n.Type = NodeTypeText -> EscapeString(n.Value)
      [] OTHER -> <<>>
DocEach(h, nodes, sep) ==
    IF nodes = <<>> THEN <<>>
    ELSE sep \o Doc(h, Head(nodes)) \o DocEach(h, Tail(nodes), sep)

RECURSIVE Lone(_, _), LoneEach(_, _, _)
\* a Render call on its own, to a sink that never fails: the chunks it
\* writes, one per Write, and the error it returns
Lone(h, n) ==
    CASE n.Type = NodeTypeTag ->
            LET a    == LoneEach(h, View(h, n.Attributes), <<<<" ">>>>)
                open == <<<<"<">>, n.Tag>> \o a.calls
            IN IF a.err # NoErr THEN [calls |-> open, err |-> a.err]
               ELSE IF n.SelfClose
               THEN [calls |-> open \o <<<<"/", ">">>>>, err |-> NoErr]
               ELSE LET c == LoneEach(h, View(h, n.Children), <<>>) IN
                    IF c.err # NoErr
                    THEN [calls |-> open \o <<<<">">>>> \o c.calls, err |-> c.err]
                    ELSE [calls |-> open \o <<<<">">>>> \o c.calls \o
                                    <<<<"<", "/">>, n.Tag, <<">">>>>,
                          err |-> NoErr]
      [] n.Type = NodeTypeAttr ->
            [calls |-> IF n.Value = <<>> THEN <<n.Key>>
                       ELSE <<n.Key, <<"=", "\"">>, EscapeString(n.Value), <<"\"">>>>,
             err |-> NoErr]
      [] n.Type = NodeTypeText ->
            [calls |-> <<EscapeString(n.Value)>>, err |-> NoErr]
      [] OTHER -> [calls |-> <<>>, err |-> UnknownType(n.Type)]
LoneEach(h, nodes, sep) ==
    IF nodes = <<>> THEN [calls |-> <<>>, err |-> NoErr]
    ELSE LET a == Lone(h, Head(nodes)) IN
         IF a.err # NoErr THEN [calls |-> sep \o a.calls, err |-> a.err]
         ELSE LET b == LoneEach(h, Tail(nodes), sep)
              IN [calls |-> sep \o a.calls \o b.calls, err |-> b.err]

\* the HTML entity of a character, or the character
Entity(c) ==
    CASE c = "<"  -> "&lt;"
      [] c = ">"  -> "&gt;"
      [] c = "&"  -> "&amp;"
      [] c = "\"" -> "&#34;"
      [] c = "'"  -> "&#39;"
      [] OTHER    -> c

RECURSIVE Escaped(_)
\* the HTML-escaped form of a string
Escaped(t) == IF t = <<>> THEN "" ELSE Entity(Head(t)) \o Escaped(Tail(t))

------------------------------------------------------------------------------
(* The claims *)

\* C1, as stated: a Render of an element that is not self-closing, none of
\* whose writes fails, writes "<", the tag, each attribute after one space,
\* ">", each child, "</", the tag, ">", whatever the attributes and children.
C1_AsStated ==
    \A r \in DOMAIN rs :
        (/\ Done(r) /\ NoWriteFailed(r)
         /\ Root(r).Type = NodeTypeTag /\ ~Root(r).SelfClose)
        => Written(r) = Doc(heap, Root(r))

\* C1, amended: the same, for an element under which every node the
\* traversal reaches has a known type; the call then returns nil.
C1_KnownTypes ==
    \A r \in DOMAIN rs :
        (/\ Done(r) /\ NoWriteFailed(r)
         /\ Root(r).Type = NodeTypeTag /\ ~Root(r).SelfClose
         /\ AllKnown(heap, Root(r)))
        => /\ Written(r) = Doc(heap, Root(r))
           /\ rs[r].err = NoErr

\* a finished Render of an element with an attribute and a child element
\* that has two attributes and two children of its own
C1_Witness ==
    \E r \in DOMAIN rs :
        /\ Done(r) /\ NoWriteFailed(r) /\ AllKnown(heap, Root(r))
        /\ Root(r).Type = NodeTypeTag /\ ~Root(r).SelfClose
        /\ Root(r).Attributes.len >= 1
        /\ \E i \in 1 .. Root(r).Children.len :
            LET c == heap[Root(r).Children.ptr][i] IN
            /\ c.Type = NodeTypeTag /\ ~c.SelfClose
            /\ c.Attributes.len >= 2 /\ c.Children.len >= 2

\* C2: a Render of Text(T), no write failing, makes one write, of T
\* with each of < > & " ' replaced by its entity, once, and every other
\* character as it is, and returns nil; the node's Value is T itself.
C2_TextEscapedOnce ==
    \A v \in DOMAIN vars :
        given[v].ctor = "Text" =>
            LET T == given[v].args[2] IN
            /\ vars[v].Value = T
            /\ \A r \in DOMAIN rs :
                (Done(r) /\ rs[r].root = v /\ NoWriteFailed(r)) =>
                    /\ Len(rs[r].sink.calls) = 1
                    /\ Str(Written(r)) = Escaped(T)
                    /\ rs[r].err = NoErr

\* a finished Render of Text("&<")
C2_Witness ==
    \E r \in DOMAIN rs :
        /\ Done(r) /\ NoWriteFailed(r)
        /\ History(r).ctor = "Text" /\ History(r).args[2] = <<"&", "<">>
        /\ Str(Written(r)) = "&amp;&lt;"

\* the key each fixed-key attribute helper sets
FixedKey(c) ==
    CASE c = "Class"       -> "class"
      [] c = "ID"          -> "id"
      [] c = "Href"        -> "href"
      [] c = "Src"         -> "src"
      [] c = "Alt"         -> "alt"
      [] c = "Type"        -> "type"
      [] c = "Value"       -> "value"
      [] c = "Placeholder" -> "placeholder"
      [] c = "Disabled"    -> "disabled"
      [] c = "Required"    -> "required"

AttrCtors ==
    {"Attr", "Class", "ID", "Href", "Src", "Alt", "Type", "Value",
     "Placeholder", "Disabled", "Required"}

\* C3: a Render of an attribute node, no write failing, writes the key as
\* it is and then, for a non-empty value V, ="escaped V" and for an empty
\* one nothing; so for Attr(K, V) and for the helpers with their fixed keys.
C3_Attribute ==
    \A r \in DOMAIN rs :
        (Done(r) /\ NoWriteFailed(r) /\ History(r).ctor \in AttrCtors) =>
            LET K == History(r).args[1]
                V == History(r).args[2]
                key == IF History(r).ctor = "Attr" THEN Str(K)
                       ELSE FixedKey(History(r).ctor)
            IN /\ Str(Written(r)) =
                    IF V = <<>> THEN key
                    ELSE key \o "=\"" \o Escaped(V) \o "\""
               /\ rs[r].err = NoErr

\* a finished Render of Class(""): the bare token
C3_Witness ==
    \E r \in DOMAIN rs :
        /\ Done(r) /\ NoWriteFailed(r)
        /\ History(r).ctor = "Class" /\ History(r).args[2] = <<>>
        /\ Str(Written(r)) = "class"

\* the tag of an element constructor
CtorTag(c) ==
    CASE c = "input" -> <<"i", "n", "p", "u", "t">>
      [] c = "img"   -> <<"i", "m", "g">>

\* C4: a Render of an element built by Input or Img, whatever was given to
\* the constructor and to Add since, no write failing, writes "<", the tag,
\* each attribute given after one space, "/>", nothing more, and returns nil.
C4_SelfClosing ==
    \A r \in DOMAIN rs :
        (Done(r) /\ NoWriteFailed(r) /\ History(r).ctor \in {"input", "img"}) =>
            /\ Written(r) =
                  <<"<">> \o CtorTag(History(r).ctor) \o
                  DocEach(heap, SelectSeq(History(r).args, IsAttr), <<" ">>) \o
                  <<"/", ">">>
            /\ rs[r].sink.calls[Len(rs[r].sink.calls)] = <<"/", ">">>
            /\ rs[r].err = NoErr

\* a finished Render of an Input whose children, some given to the
\* constructor and some to Add, include an element and a node of no known type
C4_Witness ==
    \E r \in DOMAIN rs :
        /\ Done(r) /\ NoWriteFailed(r) /\ History(r).ctor = "input"
        /\ Root(r).Attributes.len >= 2
        /\ Root(r).Children.len >= 4
        /\ \E i \in 1 .. Root(r).Children.len :
                heap[Root(r).Children.ptr][i] = BadNode
        /\ \E i \in 1 .. Root(r).Children.len :
                heap[Root(r).Children.ptr][i].Type = NodeTypeTag

\* C5: the Attributes of a variable made by an element constructor are the
\* attribute nodes given to the constructor and to the Adds since, in the
\* order given, and its Children the other nodes given, in the order given.
C5_Partition ==
    \A v \in DOMAIN vars :
        given[v].ctor \in ElementCtors =>
            /\ View(heap, vars[v].Attributes) = SelectSeq(given[v].args, IsAttr)
            /\ View(heap, vars[v].Children) = SelectSeq(given[v].args, IsNotAttr)

\* an element given attributes and other nodes, a node of no known type
\* among them, by its constructor and then more by Add
C5_Witness ==
    \E v \in DOMAIN vars :
        /\ given[v].ctor \in ElementCtors
        /\ Len(given[v].args) >= 6
        /\ vars[v].Attributes.len >= 3 /\ vars[v].Children.len >= 3
        /\ \E i \in 1 .. vars[v].Children.len :
                heap[vars[v].Children.ptr][i] = BadNode

\* C6: once a write fails the call has returned, with the error of that
\* write, which is the last write it made, and its writes are the first
\* ones of a Render of the same tree no write of which fails; a call none
\* of whose writes failed, on a tree of known types, returns nil.
C6_WriteFailure ==
    \A r \in DOMAIN rs :
        IF NoWriteFailed(r)
        THEN (Done(r) /\ AllKnown(heap, Root(r))) => rs[r].err = NoErr
        ELSE LET k     == FirstFailure(r)
                 whole == Lone(heap, Root(r)).calls
             IN /\ Done(r)
                /\ rs[r].err = rs[r].sink.errs[k]
                /\ Len(rs[r].sink.calls) = k
                /\ k <= Len(whole)
                /\ rs[r].sink.calls = SubSeq(whole, 1, k)

\* a Render whose sixth or later write failed, with writes still to make
C6_Witness ==
    \E r \in DOMAIN rs :
        /\ ~NoWriteFailed(r)
        /\ FirstFailure(r) >= 6
        /\ FirstFailure(r) < Len(Lone(heap, Root(r)).calls)
        /\ rs[r].err = SinkErr(FirstFailure(r))

\* C7: the Quick Start program's Render, no write failing, returns nil and
\* writes the document of the README.
C7_QuickStart ==
    \A r \in DOMAIN rs :
        (Done(r) /\ NoWriteFailed(r)) =>
            /\ rs[r].err = NoErr
            /\ Str(Written(r)) =
                "<div class=\"container\"><h1>Welcome!</h1>" \o
                "<p>This is a <a href=\"/link\">link</a> example.</p>" \o
                "<button type=\"button\" class=\"btn\">Click me</button></div>"

\* the program has rendered its div, with context.Background()
C7_Witness ==
    \E r \in DOMAIN rs :
        /\ Done(r) /\ NoWriteFailed(r) /\ rs[r].ctx = "background"
        /\ rs[r].root = "div" /\ ops = 5
        /\ given["div"].args =
              <<Class(Chars_Container), vars["h1"], vars["p"], vars["button"]>>

\* C8: a Render that reaches a node of no known type, no write failing,
\* returns the unknown-type error for that node, having written what a
\* traversal writes before it reaches the node and nothing after: nothing
\* at all when the node is the root.
C8_UnknownType ==
    \A r \in DOMAIN rs :
        (Done(r) /\ NoWriteFailed(r) /\ ~AllKnown(heap, Root(r))) =>
            /\ rs[r].err.kind = "unknown node type"
            /\ rs[r].err.at \notin {NodeTypeTag, NodeTypeAttr, NodeTypeText}
            /\ rs[r].err = Lone(heap, Root(r)).err
            /\ rs[r].sink.calls = Lone(heap, Root(r)).calls
            /\ Root(r).Type \notin {NodeTypeTag, NodeTypeAttr, NodeTypeText}
                    => rs[r].sink.calls = <<>>
            /\ Root(r).Type = NodeTypeTag
                    => Len(Written(r)) < Len(Doc(heap, Root(r)))

\* a finished Render of an element built by a constructor that reached a
\* node of no known type among its children, after writing a child
C8_Witness ==
    \E r \in DOMAIN rs :
        /\ Done(r) /\ NoWriteFailed(r)
        /\ History(r).ctor = "div"
        /\ \E i \in 2 .. Root(r).Children.len :
                heap[Root(r).Children.ptr][i] = BadNode
        /\ rs[r].err = UnknownType(BadNode.Type)
        /\ Len(rs[r].sink.calls) >= 4

\* C9: a step of a Render call changes no variable and no backing array,
\* and every call that finishes, none of its writes failing, has written
\* what a Render of the tree on its own writes, whatever the other call did
\* meanwhile.
C9_ReadOnly ==
    [][ /\ rs' # rs => (heap' = heap /\ vars' = vars)
        /\ \A r \in DOMAIN rs :
              (rs'[r].status = "done" /\ rs[r].status = "running"
                    /\ \A k \in 1 .. Len(rs'[r].sink.errs) :
                            rs'[r].sink.errs[k] = NoErr)
              => /\ rs'[r].sink.calls = Lone(heap, vars[rs[r].root]).calls
                 /\ rs'[r].err = Lone(heap, vars[rs[r].root]).err
      ]_vars_all

\* one call has finished, no write failing, while the other, begun on the
\* same tree, has made some of its writes and has more to make
C9_Witness ==
    /\ rs["r1"].status = "done" /\ NoWriteFailed("r1")
    /\ rs["r2"].status = "running" /\ NoWriteFailed("r2")
    /\ Len(rs["r2"].sink.calls) >= 3
    /\ Len(rs["r2"].sink.calls) < Len(rs["r1"].sink.calls)
    /\ rs["r1"].root = rs["r2"].root

\* two calls whose sinks behaved alike: no write failed, or the same one did
SameSink(r, q) ==
    \/ NoWriteFailed(r) /\ NoWriteFailed(q)
    \/ /\ ~NoWriteFailed(r) /\ ~NoWriteFailed(q)
       /\ FirstFailure(r) = FirstFailure(q)

RECURSIVE TreeTo(_, _, _)
\* the tree a Node value stands for, d levels down: its fields, and in
\* place of the two slices the trees of the nodes they hold
TreeTo(h, n, d) ==
    IF d = 0 THEN <<>>
    ELSE [Type |-> n.Type, Tag |-> n.Tag, Key |-> n.Key, Value |-> n.Value,
          SelfClose |-> n.SelfClose,
          Children   |-> [i \in 1 .. n.Children.len |->
                            TreeTo(h, h[n.Children.ptr][i], d - 1)],
          Attributes |-> [i \in 1 .. n.Attributes.len |->
                            TreeTo(h, h[n.Attributes.ptr][i], d - 1)]]

\* the whole tree of a Node the client has built: a statement makes it at
\* most one level deeper, unless it makes a backing array hold a slice of
\* itself, and then the tree has no end and this is its beginning
Tree(h, n) == TreeTo(h, n, MaxOwnOps + 1)

\* C11: an Add on one variable leaves the Attributes and the Children of
\* every other variable, all the way down, and with them what a Render of
\* it writes, exactly as they were before the Add, whatever constructor
\* calls, Node value copies and Add calls came before.
C11_AddChangesOnlyItsTarget ==
    [][ \A v \in DOMAIN vars : \A args \in OwnArgLists(v) :
            OwnAdd(v, args) =>
                \A u \in DOMAIN vars \ {v} :
                    Tree(heap', vars'[u]) = Tree(heap, vars[u])
      ]_vars_all

\* x was given the children b, c, d and then a; y, a copy of x made before
\* the a, was then given e; and the fourth child of x is e
C11_Witness ==
    /\ given["x"] = [ctor |-> "div",
                     args |-> <<Text(<<"b">>), Text(<<"c">>), Text(<<"d">>),
                                Text(<<"a">>)>>]
    /\ given["y"] = [ctor |-> "div",
                     args |-> <<Text(<<"b">>), Text(<<"c">>), Text(<<"d">>),
                                Text(<<"e">>)>>]
    /\ View(heap, vars["x"].Children) =
            <<Text(<<"b">>), Text(<<"c">>), Text(<<"d">>), Text(<<"e">>)>>
    /\ Str(Doc(heap, vars["x"])) = "<div>bcde</div>"

==============================================================================
